---- MODULE Spec2Model ----
(***************************************************************************)
(* ResultList of igrep (src/ig/result_list.rs): a flat vector of entries   *)
(* (Header | Match) with an optional selected index, its navigation,       *)
(* removal and query operations.                                           *)
(*                                                                         *)
(* Indices are 0-based as in the Rust code; At(es, i) reads es[i + 1] of   *)
(* the TLA+ sequence.  Option<usize> is modelled as a sequence of length   *)
(* 0 (None) or 1 (Some(i)).  Every operation is an operator that returns   *)
(* the record [entries, state, ok]; ok = FALSE stands for a panic (index   *)
(* out of bounds, usize subtraction below zero, unwrap of None).           *)
(***************************************************************************)
EXTENDS Integers, Sequences, FiniteSets

VARIABLES entries, state, fault, op, arg, before, run

vars == <<entries, state, fault, op, arg, before, run>>

(* ---------------------------- bounds ----------------------------------- *)

\* longest entry vector the producer is allowed to build
MaxEntries == 6
\* most matches in one FileEntry handed to add_entry
MaxMatches == 2

(* ---------------------------- inputs ----------------------------------- *)

Names == {"a.txt", "b.txt"}

\* EntryType::Header(name) and EntryType::Match(line_number, text)
Header(name) == [kind |-> "Header", name |-> name]

Match(line, text) == [kind |-> "Match", line |-> line, text |-> text]

MatchPool == { Match(10, "foo"), Match(20, "bar"), Match(5, "baz") }

\* the matches of one file as the search hands them over: at least one and at
\* most MaxMatches records, in the order of their lines in the file
MatchLists ==
    { ms \in UNION { [1..n -> MatchPool] : n \in 1..MaxMatches } :
        \A j \in 1..(Len(ms) - 1) : ms[j].line < ms[j + 1].line }

\* FileEntry::new(name, matches): the header followed by the matches
FileEntryNew(name, matches) == <<Header(name)>> \o matches

(* ---------------------------- ListState -------------------------------- *)

None == <<>>
Some(i) == <<i>>

\* ListState::selected
selected(st) == st

\* ListState::select
select(st, index) == index

(* ---------------------------- helpers ---------------------------------- *)

At(es, i) == es[i + 1]

InBounds(es, i) == i >= 0 /\ i < Len(es)

\* Vec::remove(index) on an index that is in bounds
VecRemove(es, i) == SubSeq(es, 1, i) \o SubSeq(es, i + 2, Len(es))

Max2(a, b) == IF a >= b THEN a ELSE b

MaxOf(S) == CHOOSE x \in S : \A y \in S : y <= x

MinOf(S) == CHOOSE x \in S : \A y \in S : x <= y

\* a subtraction that was left out
saturating_sub_Keep(a, b) == a

\* usize::saturating_sub
saturating_sub(a, b) == IF a >= b THEN a - b ELSE 0

Ok(es, st) == [entries |-> es, state |-> st, ok |-> TRUE]

Panic(es, st) == [entries |-> es, state |-> st, ok |-> FALSE]

is_empty(es) == Len(es) = 0

\* is_header reads self.entries[index]; callers check InBounds first
is_header(es, index) == At(es, index).kind = "Header"

(* ---------------------------- navigation ------------------------------- *)

\* next_match that steps forward one entry also when that entry is a header
next_match_NoSkip(es, st) ==
    IF is_empty(es) THEN Ok(es, st)
    ELSE IF selected(st) = None THEN Ok(es, select(st, Some(1)))
    ELSE LET i == selected(st)[1] IN
         IF i = Len(es) - 1 THEN Ok(es, select(st, Some(i)))
         ELSE IF ~InBounds(es, i + 1) THEN Panic(es, st)
         ELSE Ok(es, select(st, Some(i + 1)))

next_match(es, st) ==
    IF is_empty(es) THEN Ok(es, st)
    ELSE IF selected(st) = None THEN Ok(es, select(st, Some(1)))
    ELSE LET i == selected(st)[1] IN
         IF i = Len(es) - 1 THEN Ok(es, select(st, Some(i)))
         ELSE IF ~InBounds(es, i + 1) THEN Panic(es, st)
         ELSE IF is_header(es, i + 1) THEN Ok(es, select(st, Some(i + 2)))
         ELSE Ok(es, select(st, Some(i + 1)))

\* previous_match that steps back one entry also when that entry is a header
previous_match_NoSkip(es, st) ==
    IF is_empty(es) THEN Ok(es, st)
    ELSE IF selected(st) = None THEN Ok(es, select(st, Some(1)))
    ELSE LET i == selected(st)[1] IN
         IF i = 1 THEN Ok(es, select(st, Some(1)))
         ELSE IF ~InBounds(es, i - 1) THEN Panic(es, st)
         ELSE Ok(es, select(st, Some(i - 1)))

\* previous_match without the stop at index 1
previous_match_NoFirstGuard(es, st) ==
    IF is_empty(es) THEN Ok(es, st)
    ELSE IF selected(st) = None THEN Ok(es, select(st, Some(1)))
    ELSE LET i == selected(st)[1] IN
         IF ~InBounds(es, i - 1) THEN Panic(es, st)
         ELSE IF is_header(es, i - 1)
              THEN IF i < 2 THEN Panic(es, st) ELSE Ok(es, select(st, Some(i - 2)))
         ELSE Ok(es, select(st, Some(i - 1)))

previous_match(es, st) ==
    IF is_empty(es) THEN Ok(es, st)
    ELSE IF selected(st) = None THEN Ok(es, select(st, Some(1)))
    ELSE LET i == selected(st)[1] IN
         IF i = 1 THEN Ok(es, select(st, Some(1)))
         ELSE IF ~InBounds(es, i - 1) THEN Panic(es, st)
         ELSE IF is_header(es, i - 1)
              THEN IF i < 2 THEN Panic(es, st) ELSE Ok(es, select(st, Some(i - 2)))
         ELSE Ok(es, select(st, Some(i - 1)))

\* the loop of next_file; the result is [ok, index]
RECURSIVE NextFileLoop(_, _, _)
NextFileLoop(es, i, next_index) ==
    IF next_index = Len(es) - 1 THEN [ok |-> TRUE, index |-> i]
    ELSE IF ~InBounds(es, next_index + 1) THEN [ok |-> FALSE, index |-> i]
    ELSE IF is_header(es, next_index + 1) THEN [ok |-> TRUE, index |-> next_index + 2]
    ELSE NextFileLoop(es, i, next_index + 1)

\* next_file with the body of next_match
next_file_AsNextMatch(es, st) == next_match(es, st)

next_file(es, st) ==
    IF is_empty(es) THEN Ok(es, st)
    ELSE IF selected(st) = None THEN Ok(es, select(st, Some(1)))
    ELSE LET i == selected(st)[1]
             r == NextFileLoop(es, i, i)
         IN IF r.ok THEN Ok(es, select(st, Some(r.index))) ELSE Panic(es, st)

\* the loop of previous_file; the result is [ok, index]
RECURSIVE PreviousFileLoop(_, _, _)
PreviousFileLoop(es, next_index, first_header_visited) ==
    IF next_index = 1 THEN [ok |-> TRUE, index |-> next_index]
    ELSE IF next_index = 0 THEN [ok |-> FALSE, index |-> next_index]
    ELSE IF ~InBounds(es, next_index - 1) THEN [ok |-> FALSE, index |-> next_index]
    ELSE IF is_header(es, next_index - 1)
         THEN IF ~first_header_visited
              THEN IF next_index - 1 = 0 THEN [ok |-> FALSE, index |-> next_index]
                   ELSE PreviousFileLoop(es, next_index - 2, TRUE)
              ELSE [ok |-> TRUE, index |-> next_index]
    ELSE PreviousFileLoop(es, next_index - 1, first_header_visited)

\* previous_file with the body of previous_match
previous_file_AsPreviousMatch(es, st) == previous_match(es, st)

\* previous_file that stops at the first header it meets: it selects the
\* first match of the selection's own file
previous_file_OwnFile(es, st) ==
    IF is_empty(es) THEN Ok(es, st)
    ELSE IF selected(st) = None THEN Ok(es, select(st, Some(1)))
    ELSE LET i == selected(st)[1]
             hs == { k \in 0..(i - 1) : InBounds(es, k) /\ is_header(es, k) }
         IN IF hs = {} THEN Panic(es, st)
            ELSE Ok(es, select(st, Some(MaxOf(hs) + 1)))

previous_file(es, st) ==
    IF is_empty(es) THEN Ok(es, st)
    ELSE IF selected(st) = None THEN Ok(es, select(st, Some(1)))
    ELSE LET i == selected(st)[1]
             r == PreviousFileLoop(es, i, FALSE)
         IN IF r.ok THEN Ok(es, select(st, Some(r.index))) ELSE Panic(es, st)

\* top that selects index 0
top_SelectsZero(es, st) ==
    IF is_empty(es) THEN Ok(es, st) ELSE Ok(es, select(st, Some(0)))

top(es, st) ==
    IF is_empty(es) THEN Ok(es, st) ELSE Ok(es, select(st, Some(1)))

\* bottom that selects len instead of len - 1
bottom_PastEnd(es, st) ==
    IF is_empty(es) THEN Ok(es, st) ELSE Ok(es, select(st, Some(Len(es))))

bottom(es, st) ==
    IF is_empty(es) THEN Ok(es, st) ELSE Ok(es, select(st, Some(Len(es) - 1)))

(* ---------------------------- removal ---------------------------------- *)

\* the backward scan that stops at the entry before the selection
CurrentFileHeaderIndex_Prev(es, selected_index) ==
    IF selected_index = 0 THEN 0 ELSE selected_index - 1

\* for index in (0..selected_index).rev(): the nearest header before the
\* selection, 0 when there is none
CurrentFileHeaderIndex(es, selected_index) ==
    LET hs == { index \in 0..(selected_index - 1) : is_header(es, index) }
    IN IF hs = {} THEN 0 ELSE MaxOf(hs)

\* the forward scan without its break: it runs to the end of the entries
NextFileHeaderIndex_End(es, selected_index) == Len(es)

\* for index in selected_index..self.entries.len(): the first header at or
\* after the selection, len when there is none
NextFileHeaderIndex(es, selected_index) ==
    LET ns == { index \in selected_index..(Len(es) - 1) : is_header(es, index) }
    IN IF ns = {} THEN Len(es) ELSE MinOf(ns)

\* for _ in 0..span { self.entries.remove(index) }; the result is [ok, entries]
RECURSIVE RemoveSpan(_, _, _)
RemoveSpan(es, index, span) ==
    IF span = 0 THEN [ok |-> TRUE, entries |-> es]
    ELSE IF ~InBounds(es, index) THEN [ok |-> FALSE, entries |-> es]
    ELSE RemoveSpan(VecRemove(es, index), index, span - 1)

\* the selection reset to the first match instead of the previous file's last
SelectAfterFileRemoval_First(st, selected_index, current_file_header_index) ==
    IF selected_index # 1 THEN select(st, Some(1)) ELSE st

\* the selection remove_current_file leaves on a list that is still non-empty
SelectAfterFileRemoval(st, selected_index, current_file_header_index) ==
    IF selected_index # 1
    THEN select(st, Some(Max2(saturating_sub(current_file_header_index, 1), 1)))
    ELSE st

remove_current_file(es, st) ==
    IF is_empty(es) THEN Ok(es, st)
    ELSE IF selected(st) = None THEN Panic(es, st)
    ELSE LET selected_index == selected(st)[1] IN
         IF selected_index - 1 >= Len(es) THEN Panic(es, st)
         ELSE LET current_file_header_index == CurrentFileHeaderIndex(es, selected_index)
                  next_file_header_index == NextFileHeaderIndex(es, selected_index)
              IN IF next_file_header_index < current_file_header_index THEN Panic(es, st)
                 ELSE LET span == next_file_header_index - current_file_header_index
                          r == RemoveSpan(es, current_file_header_index, span)
                      IN IF ~r.ok THEN Panic(es, st)
                         ELSE IF is_empty(r.entries) THEN Ok(r.entries, select(st, None))
                         ELSE Ok(r.entries,
                                 SelectAfterFileRemoval(st, selected_index,
                                                        current_file_header_index))

\* is_last_match_in_file that looks only at the entry before the selection
is_last_match_in_file_PrevOnly(es, st) ==
    IF selected(st) = None THEN [ok |-> FALSE, value |-> FALSE]
    ELSE LET current_index == selected(st)[1] IN
         IF current_index = 0 \/ ~InBounds(es, current_index - 1)
         THEN [ok |-> FALSE, value |-> FALSE]
         ELSE [ok |-> TRUE, value |-> is_header(es, current_index - 1)]

\* is_last_match_in_file that takes only the end of the entries, not a
\* following header, as the end of the file group
is_last_match_in_file_EndOnly(es, st) ==
    IF selected(st) = None THEN [ok |-> FALSE, value |-> FALSE]
    ELSE LET current_index == selected(st)[1] IN
         IF current_index = 0 \/ ~InBounds(es, current_index - 1)
         THEN [ok |-> FALSE, value |-> FALSE]
         ELSE [ok |-> TRUE,
               value |-> is_header(es, current_index - 1)
                            /\ current_index = Len(es) - 1]

\* the result is [ok, value]
is_last_match_in_file(es, st) ==
    IF selected(st) = None THEN [ok |-> FALSE, value |-> FALSE]
    ELSE LET current_index == selected(st)[1] IN
         IF current_index = 0 \/ ~InBounds(es, current_index - 1)
         THEN [ok |-> FALSE, value |-> FALSE]
         ELSE IF is_header(es, current_index - 1)
              THEN IF current_index = Len(es) - 1 THEN [ok |-> TRUE, value |-> TRUE]
                   ELSE IF ~InBounds(es, current_index + 1)
                        THEN [ok |-> FALSE, value |-> FALSE]
                   ELSE [ok |-> TRUE, value |-> is_header(es, current_index + 1)]
         ELSE [ok |-> TRUE, value |-> FALSE]

\* the removal that selects the previous index in every case
remove_current_entry_and_select_previous_Always(es, st) ==
    IF selected(st) = None THEN Panic(es, st)
    ELSE LET selected_index == selected(st)[1] IN
         IF ~InBounds(es, selected_index) THEN Panic(es, st)
         ELSE IF selected_index = 0 THEN Panic(VecRemove(es, selected_index), st)
         ELSE Ok(VecRemove(es, selected_index), select(st, Some(selected_index - 1)))

remove_current_entry_and_select_previous(es, st) ==
    IF selected(st) = None THEN Panic(es, st)
    ELSE LET selected_index == selected(st)[1] IN
         IF ~InBounds(es, selected_index) THEN Panic(es, st)
         ELSE LET es2 == VecRemove(es, selected_index) IN
              IF selected_index >= Len(es2) \/ is_header(es2, selected_index)
              THEN IF selected_index = 0 THEN Panic(es2, st)
                   ELSE Ok(es2, select(st, Some(selected_index - 1)))
              ELSE Ok(es2, st)

\* remove_current_entry without the early return on an empty list
remove_current_entry_NoEmptyCheck(es, st) ==
    LET last == is_last_match_in_file(es, st) IN
    IF ~last.ok THEN Panic(es, st)
    ELSE IF last.value THEN remove_current_file(es, st)
    ELSE remove_current_entry_and_select_previous(es, st)

remove_current_entry(es, st) ==
    IF is_empty(es) THEN Ok(es, st)
    ELSE LET last == is_last_match_in_file(es, st) IN
         IF ~last.ok THEN Panic(es, st)
         ELSE IF last.value THEN remove_current_file(es, st)
         ELSE remove_current_entry_and_select_previous(es, st)

(* ---------------------------- append, clear ---------------------------- *)

\* add_entry that calls next_match whether or not a selection exists
add_entry_AlwaysNextMatch(es, st, entry) == next_match(es \o entry, st)

add_entry(es, st, entry) ==
    LET es2 == es \o entry IN
    IF selected(st) = None THEN next_match(es2, st) ELSE Ok(es2, st)

\* clear that resets the selection and keeps the entries
clear_KeepEntries(es, st) == Ok(es, select(st, None))

\* clear that empties the entries and keeps the selection
clear_KeepSelection(es, st) == Ok(<<>>, st)

clear(es, st) == Ok(<<>>, select(st, None))

(* ---------------------------- queries ---------------------------------- *)

\* the loop that overwrites line_number at every match it passes
RECURSIVE SelectedEntryLoop_Overwrite(_, _, _)
SelectedEntryLoop_Overwrite(es, index, line_number) ==
    IF index < 0 THEN [ok |-> TRUE, value |-> None]
    ELSE IF ~InBounds(es, index) THEN [ok |-> FALSE, value |-> None]
    ELSE IF is_header(es, index)
         THEN IF line_number = None THEN [ok |-> FALSE, value |-> None]
              ELSE [ok |-> TRUE, value |-> Some(<<At(es, index).name, line_number[1]>>)]
    ELSE SelectedEntryLoop_Overwrite(es, index - 1, Some(At(es, index).line))

\* the loop of get_selected_entry over (0..=i).rev(); line_number is an Option
RECURSIVE SelectedEntryLoop(_, _, _)
SelectedEntryLoop(es, index, line_number) ==
    IF index < 0 THEN [ok |-> TRUE, value |-> None]
    ELSE IF ~InBounds(es, index) THEN [ok |-> FALSE, value |-> None]
    ELSE IF is_header(es, index)
         THEN IF line_number = None THEN [ok |-> FALSE, value |-> None]
              ELSE [ok |-> TRUE, value |-> Some(<<At(es, index).name, line_number[1]>>)]
    ELSE SelectedEntryLoop(es, index - 1,
                           IF line_number = None THEN Some(At(es, index).line)
                           ELSE line_number)

\* the result is [ok, value], value an Option of <<name, line>>
get_selected_entry(es, st) ==
    IF selected(st) = None THEN [ok |-> TRUE, value |-> None]
    ELSE SelectedEntryLoop(es, selected(st)[1], None)

get_state(es, st) == st

CountKind(es, kind) == Cardinality({ k \in 1..Len(es) : es[k].kind = kind })

\* entries.iter().take(n)
Take(es, n) == SubSeq(es, 1, IF n < Len(es) THEN n ELSE Len(es))

get_current_match_index(es, st) ==
    IF selected(st) = None THEN 0
    ELSE CountKind(Take(es, selected(st)[1]), "Match") + 1

get_number_of_matches(es) == CountKind(es, "Match")

get_number_of_file_entries(es) == CountKind(es, "Header")

(* ---------------------------- state machine ---------------------------- *)

\* ResultList::default(), with the history variables at their start
Snapshot(es, st) == [entries |-> es, state |-> st]

Init ==
    /\ entries = <<>>
    /\ state = None
    /\ fault = FALSE
    /\ op = "default"
    /\ arg = <<>>
    /\ before = Snapshot(<<>>, None)
    /\ run = [lead |-> "default", start |-> Snapshot(<<>>, None), n |-> 0]

\* One call of a public operation with argument a whose result is r.  A
\* panic ends the program: nothing is called after it.  op, arg, before and
\* run are history variables: the operation called last, the FileEntry it
\* was handed (<<>> for the operations without one), the list before that
\* call, and the current streak of calls of one operation (lead: the
\* operation called before the streak, start: the list when the streak
\* began, n: its length, counted up to MaxEntries).
CallWith(name, r, a) ==
    /\ ~fault
    /\ entries' = r.entries
    /\ state' = r.state
    /\ fault' = ~r.ok
    /\ op' = name
    /\ arg' = a
    /\ before' = Snapshot(entries, state)
    /\ run' = IF op = name
              THEN [run EXCEPT !.n = IF run.n < MaxEntries THEN run.n + 1 ELSE run.n]
              ELSE [lead |-> op, start |-> Snapshot(entries, state), n |-> 1]

Call(name, r) == CallWith(name, r, <<>>)

AddEntry ==
    \E name \in Names, matches \in MatchLists :
        /\ Len(entries) + 1 + Len(matches) <= MaxEntries
        /\ CallWith("add_entry",
                    add_entry(entries, state, FileEntryNew(name, matches)),
                    FileEntryNew(name, matches))

Clear == Call("clear", clear(entries, state))

NextMatch == Call("next_match", next_match(entries, state))

PreviousMatch == Call("previous_match", previous_match(entries, state))

NextFile == Call("next_file", next_file(entries, state))

PreviousFile == Call("previous_file", previous_file(entries, state))

Top == Call("top", top(entries, state))

Bottom == Call("bottom", bottom(entries, state))

RemoveCurrentEntry == Call("remove_current_entry", remove_current_entry(entries, state))

RemoveCurrentFile == Call("remove_current_file", remove_current_file(entries, state))

Next ==
    \/ AddEntry
    \/ Clear
    \/ NextMatch
    \/ PreviousMatch
    \/ NextFile
    \/ PreviousFile
    \/ Top
    \/ Bottom
    \/ RemoveCurrentEntry
    \/ RemoveCurrentFile

Spec == Init /\ [][Next]_vars

(* ---------------------------- vocabulary of the properties ------------- *)

Removals == {"remove_current_entry", "remove_current_file"}

\* the ordinal of the file group that position i lies in: the number of
\* headers at positions 0..i
GroupNo(es, i) == Cardinality({ k \in 0..i : InBounds(es, k) /\ is_header(es, k) })

\* the positions of the matches of group g
GroupMatches(es, g) ==
    { k \in 0..(Len(es) - 1) : GroupNo(es, k) = g /\ ~is_header(es, k) }

\* es without the entries of group g, the others in their order
RECURSIVE WithoutGroupFrom(_, _, _)
WithoutGroupFrom(es, g, k) ==
    IF k >= Len(es) THEN <<>>
    ELSE (IF GroupNo(es, k) = g THEN <<>> ELSE <<At(es, k)>>)
         \o WithoutGroupFrom(es, g, k + 1)

WithoutGroup(es, g) == WithoutGroupFrom(es, g, 0)

(* ---------------------------- C1 --------------------------------------- *)

\* C1: in every reachable state, a selection that holds an index holds one
\* that is within bounds and whose entry is a Match, never a Header.
C1_SelectionOnMatch ==
    state # None =>
        /\ InBounds(entries, state[1])
        /\ At(entries, state[1]).kind = "Match"

\* previous_file has moved the selection back to a match beyond index 1
C1_Witness_Navigation ==
    /\ op = "previous_file"
    /\ before.state # None /\ state # None
    /\ state[1] > 1
    /\ state[1] < before.state[1]

(* ---------------------------- C2 --------------------------------------- *)

\* C2: the selection is None exactly when the entry sequence is empty; it is
\* Some after every add_entry, None after clear, and it turns from Some to
\* None only by clear or by a removal that deletes the last remaining group.
C2_NoneIffEmpty ==
    /\ (state = None) <=> (entries = <<>>)
    /\ op = "add_entry" => state # None
    /\ op = "clear" => state = None
    /\ (before.state # None /\ state = None) =>
           \/ op = "clear"
           \/ /\ op \in Removals
              /\ get_number_of_file_entries(before.entries) = 1

\* a removal has deleted the last remaining group
C2_Witness_LastGroupRemoved ==
    /\ op = "remove_current_entry"
    /\ before.state # None
    /\ state = None
    /\ entries = <<>>

(* ---------------------------- C3 --------------------------------------- *)

\* C3: the entry sequence is a concatenation of blocks of one Header and one
\* or more Matches: when non-empty it starts with a Header, does not end
\* with a Header, and has no two adjacent Headers.
C3_HeaderMatchBlocks ==
    entries # <<>> =>
        /\ is_header(entries, 0)
        /\ ~is_header(entries, Len(entries) - 1)
        /\ \A k \in 0..(Len(entries) - 2) :
               ~(is_header(entries, k) /\ is_header(entries, k + 1))

\* a removal has shortened a list that still holds two groups
C3_Witness_RemovalKeepsBlocks ==
    /\ op \in Removals
    /\ Len(entries) < Len(before.entries)
    /\ get_number_of_file_entries(entries) >= 2

(* ---------------------------- C4 --------------------------------------- *)

\* C4: no public operation panics in any reachable state: none indexes the
\* entries out of bounds, subtracts below zero or unwraps None; this holds
\* for the mutating operations (fault) and for get_selected_entry.
C4_NoPanic ==
    /\ ~fault
    /\ get_selected_entry(entries, state).ok

\* previous_file, called after a removal, has run back to index 1 from an
\* index of 3 or more
C4_Witness_BoundaryCalls ==
    /\ ~fault
    /\ op = "previous_file"
    /\ run.lead \in Removals
    /\ before.state # None /\ before.state[1] >= 3
    /\ state = Some(1)

(* ---------------------------- C5 --------------------------------------- *)

\* add_entry("a.txt", [(10, foo), (20, bar)]); add_entry("b.txt", [(5, baz)])
ScenarioEntries ==
    << Header("a.txt"), Match(10, "foo"), Match(20, "bar"),
       Header("b.txt"), Match(5, "baz") >>

\* remove_current_file has just been called on the scenario with index 4 selected
ScenarioFileRemoved ==
    /\ op = "remove_current_file"
    /\ before = Snapshot(ScenarioEntries, Some(4))

\* C5 as stated: in the example scenario remove_current_file leaves the first
\* three entries and the selection at index 1, get_selected_entry = (a.txt, 10).
C5_Original_SelectsIndex1 ==
    ScenarioFileRemoved =>
        /\ entries = SubSeq(ScenarioEntries, 1, 3)
        /\ state = Some(1)
        /\ get_selected_entry(entries, state).value = Some(<<"a.txt", 10>>)

\* C5 amended: in the example scenario remove_current_file removes indices 3
\* and 4, leaves the first three entries, and the selection is index 2, the
\* last match of a.txt: get_selected_entry = (a.txt, 20).
C5_ScenarioSelectsIndex2 ==
    ScenarioFileRemoved =>
        /\ entries = SubSeq(ScenarioEntries, 1, 3)
        /\ state = Some(2)
        /\ get_selected_entry(entries, state).value = Some(<<"a.txt", 20>>)

\* the scenario has been played up to the removal, without a panic
C5_Witness_Scenario ==
    /\ ScenarioFileRemoved
    /\ ~fault
    /\ Len(entries) = 3

(* ---------------------------- C6 --------------------------------------- *)

\* remove_current_file has just removed a group that was not the first one
RemovedLaterGroup ==
    /\ op = "remove_current_file"
    /\ before.state # None
    /\ GroupNo(before.entries, before.state[1]) >= 2

\* C6: when remove_current_file removes a group that is not the first, the
\* selection afterwards is the last match of the group that preceded the
\* removed one: the entry just before the removed header's old index.
C6_SelectsLastMatchOfPreviousFile ==
    RemovedLaterGroup =>
        LET g == GroupNo(before.entries, before.state[1])
            last == CHOOSE k \in GroupMatches(before.entries, g - 1) :
                        \A j \in GroupMatches(before.entries, g - 1) : j <= k
        IN /\ state = Some(last)
           /\ At(before.entries, last + 1).kind = "Header"
           /\ At(entries, last) = At(before.entries, last)
           /\ GroupNo(entries, last) = g - 1
           /\ \A j \in GroupMatches(entries, g - 1) : j <= last

\* the preceding group has two matches and the selection was on the second
\* match of the removed group
C6_Witness_LaterGroupRemoved ==
    /\ RemovedLaterGroup
    /\ ~fault
    /\ before.state = Some(5)
    /\ At(before.entries, 3).kind = "Header"
    /\ state = Some(2)

(* ---------------------------- C7 --------------------------------------- *)

\* C7: remove_current_file on a non-empty list removes exactly the block of
\* the group that holds the selection: one header less, that group's matches
\* less, every entry of every other group kept, unchanged and in order.
C7_RemovesExactlyOneGroup ==
    (op = "remove_current_file" /\ before.entries # <<>> /\ before.state # None) =>
        LET g == GroupNo(before.entries, before.state[1]) IN
        /\ entries = WithoutGroup(before.entries, g)
        /\ get_number_of_file_entries(entries)
               = get_number_of_file_entries(before.entries) - 1
        /\ get_number_of_matches(entries)
               = get_number_of_matches(before.entries)
                     - Cardinality(GroupMatches(before.entries, g))
        /\ Len(before.entries) - Len(entries)
               = 1 + Cardinality(GroupMatches(before.entries, g))

\* the middle group of three has been removed, groups remain on both sides
C7_Witness_MiddleGroup ==
    /\ op = "remove_current_file"
    /\ ~fault
    /\ before.state # None
    /\ GroupNo(before.entries, before.state[1]) = 2
    /\ get_number_of_file_entries(before.entries) = 3
    /\ Len(before.entries) - Len(entries) = 2

(* ---------------------------- C8 --------------------------------------- *)

\* a streak of remove_current_entry calls that began on a non-empty list
RemovingEntries ==
    /\ op = "remove_current_entry"
    /\ run.start.state # None
    /\ run.start.entries # <<>>

\* the group selected when the streak began, and its number of matches
StreakGroup == GroupNo(run.start.entries, run.start.state[1])

StreakGroupSize == Cardinality(GroupMatches(run.start.entries, StreakGroup))

\* C8: for a selection anywhere in a group with k matches, the first k - 1
\* calls of remove_current_entry remove one match of that group each and keep
\* the selection on a match of the group; the k-th removes the last match and
\* the Header; nothing of any other group changes, and after the k-th call
\* entries and selection equal those of one remove_current_file called on
\* the starting list.
C8_EntryRemovalsMatchFileRemoval ==
    RemovingEntries =>
        LET s == run.start
            g == StreakGroup
            k == StreakGroupSize
            byFile == remove_current_file(s.entries, s.state)
        IN /\ run.n < k =>
                /\ WithoutGroup(entries, g) = WithoutGroup(s.entries, g)
                /\ Cardinality(GroupMatches(entries, g)) = k - run.n
                /\ Len(entries) = Len(s.entries) - run.n
                /\ state # None
                /\ state[1] \in GroupMatches(entries, g)
                /\ \A j \in GroupMatches(entries, g) :
                       \E i \in GroupMatches(s.entries, g) :
                           At(entries, j) = At(s.entries, i)
           /\ run.n = k =>
                /\ entries = WithoutGroup(s.entries, g)
                /\ get_number_of_file_entries(entries)
                       = get_number_of_file_entries(s.entries) - 1
                /\ Snapshot(entries, state) = Snapshot(byFile.entries, byFile.state)
                /\ ~fault /\ byFile.ok

\* two calls have emptied a group of two matches that was neither the first
\* group nor the only one, starting from its second match
C8_Witness_GroupOfTwoExhausted ==
    /\ RemovingEntries
    /\ ~fault
    /\ StreakGroupSize = 2
    /\ run.n = 2
    /\ StreakGroup = 2
    /\ run.start.state = Some(5)
    /\ entries # <<>>

(* ---------------------------- C9 --------------------------------------- *)

\* next_match has just been called with a selection
AfterNextMatch ==
    /\ op = "next_match"
    /\ before.state # None
    /\ before.entries # <<>>

WasAtLastMatch == before.state[1] = Len(before.entries) - 1

WasAtFirstMatch == before.state[1] = 1

\* C9 as stated: next_match followed by previous_match returns the selection
\* to its original index, except at the last match, where next_match is a
\* no-op, and at the first match, where previous_match is a no-op after the
\* next_match.
C9_Original_FirstMatchException ==
    AfterNextMatch =>
        LET back == previous_match(entries, state) IN
        /\ (~WasAtLastMatch /\ ~WasAtFirstMatch) => back.state = before.state
        /\ WasAtLastMatch => state = before.state
        /\ WasAtFirstMatch => back.state = state

\* C9 amended: next_match followed by previous_match returns the selection
\* to its original index from every match but the last one, the first match
\* included; at the last match next_match is a no-op.
C9_NextThenPreviousReturns ==
    AfterNextMatch =>
        LET back == previous_match(entries, state) IN
        /\ back.ok
        /\ back.entries = before.entries
        /\ ~WasAtLastMatch => (state # before.state /\ back.state = before.state)
        /\ WasAtLastMatch => state = before.state

\* next_match has crossed a header from the last match of the first group
C9_Witness_AcrossHeader ==
    /\ AfterNextMatch
    /\ ~fault
    /\ state # None
    /\ state[1] = before.state[1] + 2
    /\ previous_match(entries, state).state = before.state

(* ---------------------------- C10 -------------------------------------- *)

\* a streak of next_match calls that follows top() on a non-empty list
WalkingFromTop ==
    /\ op = "next_match"
    /\ run.lead = "top"
    /\ entries # <<>>

\* C10: after top() on a list with N matches get_current_match_index is 1;
\* the j-th next_match call after it makes it j + 1 as long as j + 1 <= N,
\* across header boundaries too, and N from then on.
C10_WalkEnumeratesMatches ==
    LET N == get_number_of_matches(entries)
        idx == get_current_match_index(entries, state)
    IN /\ (op = "top" /\ entries # <<>>) => idx = 1
       /\ WalkingFromTop => idx = (IF run.n + 1 <= N THEN run.n + 1 ELSE N)

\* the walk has crossed two headers, reached the last of three matches and
\* next_match has been called once more
C10_Witness_WalkPastTheEnd ==
    /\ WalkingFromTop
    /\ ~fault
    /\ get_number_of_matches(entries) = 3
    /\ get_number_of_file_entries(entries) = 3
    /\ run.n = 3
    /\ get_current_match_index(entries, state) = 3

(* ---------------------------- C11 -------------------------------------- *)

\* the lists one call of operation name can leave a freshly constructed list in
FreshAfter(name) ==
    IF name = "add_entry"
    THEN { Snapshot(r.entries, r.state) :
             r \in { add_entry(<<>>, None, FileEntryNew(n, ms)) :
                       n \in Names, ms \in MatchLists } }
    ELSE { Snapshot(<<>>, None) }

\* C11: after clear(), from any state, entries are empty and the selection is
\* None, as in a freshly constructed list, and the call that follows leaves
\* the list as the same call leaves a new list: an add_entry selects index 1
\* of the added group alone, every other operation changes nothing.
C11_ClearGivesFreshList ==
    /\ op = "clear" => (Snapshot(entries, state) = Snapshot(<<>>, None) /\ ~fault)
    /\ (run.lead = "clear" /\ run.n = 1) =>
           /\ ~fault
           /\ Snapshot(entries, state) \in FreshAfter(op)
           /\ op = "add_entry" => (entries = arg /\ state = Some(1))

\* clear has been called and a group of two matches has been added next
C11_Witness_ClearThenAdd ==
    /\ op = "add_entry"
    /\ run.lead = "clear"
    /\ run.n = 1
    /\ Len(entries) = 3
    /\ state = Some(1)

(* ---------------------------- C12 -------------------------------------- *)

EmptyListNoOps ==
    { "next_match", "previous_match", "next_file", "previous_file", "top",
      "bottom", "remove_current_entry", "remove_current_file" }

\* C12: on an empty list next_match, previous_match, next_file,
\* previous_file, top, bottom, remove_current_entry and remove_current_file
\* change nothing: entries stay empty, the selection stays None, no panic.
C12_EmptyListNoOps ==
    (op \in EmptyListNoOps /\ before.entries = <<>>) =>
        /\ entries = <<>>
        /\ state = None
        /\ before.state = None
        /\ ~fault

\* a removal has been called on a list that a removal had emptied
C12_Witness_RemovalOnEmptied ==
    /\ op = "remove_current_file"
    /\ run.lead = "remove_current_entry"
    /\ before.entries = <<>>
    /\ entries = <<>>
    /\ ~fault

(* ---------------------------- C13 -------------------------------------- *)

\* C13: add_entry appends the group's Header and then its Matches in their
\* given order at the end of the entries and leaves the existing entries
\* unchanged; without a selection it selects index 1, with one it leaves the
\* selection unchanged.
C13_AddEntryAppends ==
    op = "add_entry" =>
        /\ ~fault
        /\ Len(entries) = Len(before.entries) + Len(arg)
        /\ SubSeq(entries, 1, Len(before.entries)) = before.entries
        /\ SubSeq(entries, Len(before.entries) + 1, Len(entries)) = arg
        /\ arg[1].kind = "Header"
        /\ \A j \in 2..Len(arg) : arg[j].kind = "Match"
        /\ before.state = None => state = Some(1)
        /\ before.state # None => state = before.state

\* a group of two matches has been added to a list whose selection was not
\* index 1
C13_Witness_AddWithSelection ==
    /\ op = "add_entry"
    /\ before.state # None
    /\ before.state[1] > 1
    /\ Len(arg) = 3
    /\ state = before.state

(* ---------------------------- C14 -------------------------------------- *)

\* the position of the first match of group g
FirstMatchOf(es, g) == MinOf(GroupMatches(es, g))

\* next_file has just been called with a selection
AfterNextFile ==
    /\ op = "next_file"
    /\ before.state # None
    /\ before.entries # <<>>

\* C14: next_file moves the selection from any match of a group that is not
\* the last to the first match of the following group; in the last group it
\* leaves the selection unchanged.  The entries do not change.
C14_NextFile ==
    AfterNextFile =>
        LET g == GroupNo(before.entries, before.state[1]) IN
        /\ ~fault
        /\ entries = before.entries
        /\ g < get_number_of_file_entries(entries) =>
               state = Some(FirstMatchOf(entries, g + 1))
        /\ g = get_number_of_file_entries(entries) => state = before.state

\* next_file has gone from the first of two matches of the first group to
\* the second group
C14_Witness_FromFirstOfTwo ==
    /\ AfterNextFile
    /\ ~fault
    /\ before.state = Some(1)
    /\ state = Some(4)

(* ---------------------------- C15 -------------------------------------- *)

\* previous_file has just been called with a selection
AfterPreviousFile ==
    /\ op = "previous_file"
    /\ before.state # None
    /\ before.entries # <<>>

\* C15: previous_file moves the selection from any match of a group that is
\* not the first to the first match of the preceding group; anywhere in the
\* first group it moves the selection to index 1.  The entries do not change.
C15_PreviousFile ==
    AfterPreviousFile =>
        LET g == GroupNo(before.entries, before.state[1]) IN
        /\ ~fault
        /\ entries = before.entries
        /\ g > 1 => state = Some(FirstMatchOf(entries, g - 1))
        /\ g = 1 => state = Some(1)

\* previous_file has gone from the third group to the first match of the
\* second group, not to index 1
C15_Witness_FromThirdGroup ==
    /\ AfterPreviousFile
    /\ ~fault
    /\ GroupNo(before.entries, before.state[1]) = 3
    /\ state # None
    /\ state[1] >= 3

(* ---------------------------- C16 -------------------------------------- *)

\* remove_current_entry has just been called on a match that was not the
\* only match of its group
RemovedOneOfSeveral ==
    /\ op = "remove_current_entry"
    /\ before.state # None
    /\ Cardinality(GroupMatches(before.entries,
                                GroupNo(before.entries, before.state[1]))) >= 2

\* C16: remove_current_entry on a match that is not the only match of its
\* group removes that entry and nothing else; the selection index stays
\* unless it is now past the end or on a Header, and then it moves back by
\* one; in both cases the selection is on a match of the same group.
C16_RemoveOneMatch ==
    RemovedOneOfSeveral =>
        LET i == before.state[1]
            g == GroupNo(before.entries, i)
            old == before.entries
        IN /\ ~fault
           /\ Len(entries) = Len(old) - 1
           /\ \A k \in 0..(Len(entries) - 1) :
                  At(entries, k) = (IF k < i THEN At(old, k) ELSE At(old, k + 1))
           /\ state = (IF i >= Len(entries) \/ At(entries, i).kind = "Header"
                       THEN Some(i - 1) ELSE Some(i))
           /\ state[1] \in GroupMatches(entries, g)

\* the last of two matches of the first group, a group following it, has
\* been removed and the selection has moved back by one
C16_Witness_HeaderSlidIn ==
    /\ RemovedOneOfSeveral
    /\ ~fault
    /\ before.state = Some(2)
    /\ state = Some(1)
    /\ Len(entries) >= 4
    /\ At(entries, 2).kind = "Header"

(* ---------------------------- C17 -------------------------------------- *)

\* C17: on a non-empty list get_selected_entry returns the name of the
\* nearest Header before the selection and the line number of the selected
\* match itself; it returns None exactly when the list is empty.
C17_SelectedEntry ==
    LET got == get_selected_entry(entries, state) IN
    /\ got.ok
    /\ (got.value = None) <=> (entries = <<>>)
    /\ entries # <<>> =>
           LET i == state[1]
               h == CHOOSE k \in 0..(i - 1) :
                        /\ At(entries, k).kind = "Header"
                        /\ \A j \in (k + 1)..(i - 1) : At(entries, j).kind = "Match"
           IN got.value = Some(<<At(entries, h).name, At(entries, i).line>>)

\* the selection is the second match of the second group, whose name and
\* lines differ from those of the first group
C17_Witness_SecondMatchOfSecondGroup ==
    /\ Len(entries) = 6
    /\ state = Some(5)
    /\ At(entries, 3).kind = "Header"
    /\ At(entries, 3).name # At(entries, 0).name
    /\ op = "next_match"
    /\ get_selected_entry(entries, state).value
           = Some(<<At(entries, 3).name, At(entries, 5).line>>)

(* ---------------------------- C18 -------------------------------------- *)

\* C18: on a non-empty list top() selects index 1 and bottom() the last
\* index: after top() get_current_match_index is 1 and previous_match
\* changes nothing; after bottom() get_current_match_index equals
\* get_number_of_matches and next_match changes nothing.
C18_TopAndBottom ==
    /\ (op = "top" /\ entries # <<>>) =>
           /\ state = Some(1)
           /\ get_current_match_index(entries, state) = 1
           /\ previous_match(entries, state) = Ok(entries, state)
    /\ (op = "bottom" /\ entries # <<>>) =>
           /\ state = Some(Len(entries) - 1)
           /\ get_current_match_index(entries, state) = get_number_of_matches(entries)
           /\ next_match(entries, state) = Ok(entries, state)
    /\ (op = "previous_match" /\ run.lead = "top" /\ entries # <<>>) =>
           state = Some(1)
    /\ (op = "next_match" /\ run.lead = "bottom" /\ entries # <<>>) =>
           state = Some(Len(entries) - 1)
    /\ (op \in {"top", "bottom"}) => (entries = before.entries /\ ~fault)

\* bottom() has selected the last of four matches and next_match has been
\* called once after it
C18_Witness_NextAfterBottom ==
    /\ op = "next_match"
    /\ run.lead = "bottom"
    /\ run.n = 1
    /\ before.state = Some(Len(entries) - 1)
    /\ get_number_of_matches(entries) = 4
    /\ get_current_match_index(entries, state) = 4
    /\ ~fault

(* ---------------------------- C19 -------------------------------------- *)

\* C19: every remove_current_entry call on a non-empty list lowers
\* get_number_of_matches by exactly one, also when it removes a whole file;
\* a streak of such calls that starts on a list with N matches leaves
\* N - j matches after j <= N calls, and after exactly N calls no entries
\* and no selection.
C19_EachRemovalTakesOneMatch ==
    /\ (op = "remove_current_entry" /\ before.entries # <<>>) =>
           /\ ~fault
           /\ get_number_of_matches(entries)
                  = get_number_of_matches(before.entries) - 1
    /\ RemovingEntries =>
           LET N == get_number_of_matches(run.start.entries) IN
           /\ run.n <= N => get_number_of_matches(entries) = N - run.n
           /\ run.n < N => (entries # <<>> /\ state # None)
           /\ run.n >= N => (entries = <<>> /\ state = None)

\* four calls have emptied a list of two groups of two matches each
C19_Witness_FourCallsEmptyList ==
    /\ RemovingEntries
    /\ ~fault
    /\ get_number_of_matches(run.start.entries) = 4
    /\ get_number_of_file_entries(run.start.entries) = 2
    /\ run.n = 4
    /\ entries = <<>>

(* ---------------------------- C20 -------------------------------------- *)

\* C20: from any selection in a group that is not the last, next_file
\* followed by previous_file selects the first match of the group selected
\* at the start, and neither call changes the entries.
C20_NextFileThenPreviousFile ==
    (AfterNextFile /\ GroupNo(before.entries, before.state[1])
                          < get_number_of_file_entries(before.entries)) =>
        LET g == GroupNo(before.entries, before.state[1])
            back == previous_file(entries, state)
        IN /\ ~fault /\ back.ok
           /\ entries = before.entries
           /\ back.entries = before.entries
           /\ back.state = Some(FirstMatchOf(before.entries, g))

\* next_file has left the second match of the first group; the way back
\* ends on that group's first match, not on the starting index
C20_Witness_FromSecondMatch ==
    /\ AfterNextFile
    /\ ~fault
    /\ before.state = Some(2)
    /\ state = Some(4)
    /\ previous_file(entries, state).state = Some(1)

====
